---- MODULE Spec2Model ----
(***************************************************************************)
(* Smart Video Clipper (App component): the interval planning and the job  *)
(* driver of processVideo, with the user-interface handlers that share     *)
(* state with a running job.                                               *)
(*                                                                         *)
(* Time is counted in ticks of 0.05 s, so that the 0.1 s tolerance of the  *)
(* marker loop (Eps) is two ticks and a distance can be below, equal to or *)
(* above it.  Settings that the program keeps in seconds stay in seconds   *)
(* and are converted where the code parses them.                           *)
(***************************************************************************)
EXTENDS Integers, Sequences, FiniteSets

\* ------------------------------------------------------------ time scale

\* the 0.1 of `m > lastTime + 0.1`, in ticks
Eps == 2

TicksPerSecond == 10 * Eps

\* parseFloat of a setting given in seconds, as ticks
parseFloat(seconds) == seconds * TicksPerSecond

\* ---------------------------------------------------------------- bounds

\* marker-mode inputs: durations 0..MaxMarkerDuration ticks
MaxMarkerDuration == 7
\* marker-mode inputs: at most this many markers
MaxMarkers == 3
\* fixed-interval inputs: whole seconds 0..MaxSeconds ...
MaxSeconds == 100
\* ... plus 0..MaxFrac ticks
MaxFrac == 1
\* processVideo calls in one run of the application model
MaxJobs == 1

\* ------------------------------------------------------------- settings

\* the options of the "Durasi Per Klip" select, seconds
ClipDurations == {15, 30, 60, 90}

AutoFits == {"merge", "discard"}

\* remainderThreshold: the default, and the neighbouring value 6
Thresholds == {5, 6}

\* the default template, '{name}_part{index}_{start}-{end}'
DefaultTemplate ==
    << "{", "n", "a", "m", "e", "}", "_", "p", "a", "r", "t", "{", "i", "n", "d", "e", "x", "}", "_", "{", "s", "t", "a", "r", "t", "}", "-", "{", "e", "n", "d", "}" >>

DEFAULT_TRIM_SETTINGS ==
    [duration |-> 30, autoFit |-> "merge", remainderThreshold |-> 5, mode |-> "copy",
     template |-> DefaultTemplate]

Interval(s, e) == [start |-> s, end |-> e]

Min(a, b) == IF a < b THEN a ELSE b

\* ------------------------------------------------------ interval planner

\* Array.prototype.sort((a, b) => a - b): insertion of x into a sorted sequence
RECURSIVE InsertSorted(_, _)
InsertSorted(x, s) ==
    IF s = << >> THEN << x >>
    ELSE IF x <= Head(s) THEN << x >> \o s
    ELSE << Head(s) >> \o InsertSorted(x, Tail(s))

RECURSIVE SortSeq(_)
SortSeq(s) == IF s = << >> THEN << >> ELSE InsertSorted(Head(s), SortSeq(Tail(s)))

\* [...markers, duration].sort((a, b) => a - b)
sortedMarkers(ms, dur) == SortSeq(Append(ms, dur))

\* the guard of the marker loop: m > lastTime + 0.1
MarkerEmitsNoEps(m, lastTime) == m >= lastTime
MarkerEmits(m, lastTime) == m > lastTime + Eps

\* lastTime = m, whether or not an interval was pushed
AdvanceOnEmitOnly(m, lastTime) == IF MarkerEmits(m, lastTime) THEN m ELSE lastTime
AdvanceLastTime(m, lastTime) == m

\* for (let m of sortedMarkers) { ... }
RECURSIVE MarkerLoop(_, _, _, _)
MarkerLoop(sorted, k, lastTime, acc) ==
    IF k > Len(sorted) THEN acc
    ELSE LET m == sorted[k]
         IN MarkerLoop(sorted, k + 1, AdvanceLastTime(m, lastTime),
                       IF MarkerEmits(m, lastTime)
                       THEN Append(acc, Interval(lastTime, m))
                       ELSE acc)

\* let end = Math.min(current + clipDur, duration)
CandidateEndUnclamped(current, clipDur, dur) == current + clipDur
CandidateEnd(current, clipDur, dur) == Min(current + clipDur, dur)

\* remainder > 0 && remainder < parseFloat(trimSettings.remainderThreshold)
RemainderInclusive(remainder, threshold) == remainder > 0 /\ remainder <= threshold
RemainderBelowThreshold(remainder, threshold) == remainder > 0 /\ remainder < threshold

\* autoFit === 'merge': end = duration
MergeEndKeepsCandidate(end, dur) == end
MergeEnd(end, dur) == dur

\* while (current < duration) { ... }
RECURSIVE FixedLoop(_, _, _, _, _, _)
FixedLoop(current, acc, dur, clipDur, threshold, autoFit) ==
    IF ~(current < dur) THEN acc
    ELSE LET end0 == CandidateEnd(current, clipDur, dur)
             remainder == dur - end0
             small == RemainderBelowThreshold(remainder, threshold)
         IN IF small /\ autoFit = "discard"
            THEN Append(acc, Interval(current, end0))
            ELSE LET end == IF small /\ autoFit = "merge"
                            THEN MergeEnd(end0, dur) ELSE end0
                     acc1 == Append(acc, Interval(current, end))
                 IN IF end >= dur THEN acc1
                    ELSE FixedLoop(end, acc1, dur, clipDur, threshold, autoFit)

\* the planning part of processVideo
planIntervalsWholeMedia(dur, ms, ts) == << Interval(0, dur) >>
planIntervals(dur, ms, ts) ==
    IF Len(ms) > 0
    THEN MarkerLoop(sortedMarkers(ms, dur), 1, 0, << >>)
    ELSE FixedLoop(0, << >>, dur, parseFloat(ts.duration),
                   parseFloat(ts.remainderThreshold), ts.autoFit)

\* --------------------------------------------------------------- strings
\* A JavaScript string is the sequence of its characters.

\* pat occurs in s at position k
OccursAt(s, pat, k) ==
    k + Len(pat) - 1 <= Len(s) /\ SubSeq(s, k, k + Len(pat) - 1) = pat

\* the position of the first occurrence of pat in s, 0 when there is none
IndexOf(s, pat) ==
    IF \E k \in 1..Len(s) : OccursAt(s, pat, k)
    THEN CHOOSE k \in 1..Len(s) :
            OccursAt(s, pat, k) /\ \A j \in 1..(k - 1) : ~OccursAt(s, pat, j)
    ELSE 0

\* String.prototype.replace(pat, rep) with a string pattern: the first
\* occurrence only
replace(s, pat, rep) ==
    LET k == IndexOf(s, pat)
    IN IF k = 0 THEN s
       ELSE SubSeq(s, 1, k - 1) \o rep \o SubSeq(s, k + Len(pat), Len(s))

DigitChars == << "0", "1", "2", "3", "4", "5", "6", "7", "8", "9" >>

\* Number.prototype.toString of a non-negative integer
RECURSIVE toString(_)
toString(n) ==
    IF n < 10 THEN << DigitChars[n + 1] >>
    ELSE toString(n \div 10) \o << DigitChars[(n % 10) + 1] >>

\* String.prototype.padStart(width, '0')
RECURSIVE padStart(_, _)
padStart(s, width) == IF Len(s) >= width THEN s ELSE padStart(<< "0" >> \o s, width)

\* Math.floor of a time in ticks, as whole seconds
floorSeconds(t) == t \div TicksPerSecond

\* Number.prototype.toFixed(3) of a time in ticks
toFixed3(t) ==
    toString(t \div TicksPerSecond) \o << "." >>
        \o padStart(toString((t % TicksPerSecond) * (1000 \div TicksPerSecond)), 3)

\* name.replace(/\.[^/.]+$/, ""): the last dot and what follows it, when at
\* least one character follows and none of them is a slash
baseName(name) ==
    LET dots == { k \in 1..Len(name) : name[k] = "." }
    IN IF dots = {} THEN name
       ELSE LET d == CHOOSE k \in dots : \A j \in dots : j <= k
            IN IF d < Len(name) /\ \A j \in (d + 1)..Len(name) : name[j] # "/"
               THEN SubSeq(name, 1, d - 1)
               ELSE name

\* ----------------------------------------------------------- clip naming

TokName == << "{", "n", "a", "m", "e", "}" >>
TokPart == << "{", "p", "a", "r", "t", "}" >>
TokIndex == << "{", "i", "n", "d", "e", "x", "}" >>
TokStart == << "{", "s", "t", "a", "r", "t", "}" >>
TokEnd == << "{", "e", "n", "d", "}" >>
ExtMp4 == << ".", "m", "p", "4" >>

\* the 1-based ordinal of interval index: (index + 1)
OrdinalZeroBased(index) == index
Ordinal(index) == index + 1

\* generateClipName(index, start, end), with the videoFile.name and the
\* trimSettings.template it closes over
generateClipName(fileName, template, index, start, end) ==
    replace(
      replace(
        replace(
          replace(
            replace(template, TokName, baseName(fileName)),
            TokPart, padStart(toString(Ordinal(index)), 3)),
          TokIndex, toString(Ordinal(index))),
        TokStart, toString(floorSeconds(start))),
      TokEnd, toString(floorSeconds(end))) \o ExtMp4

\* 'input_' + videoFile.name
inputNameOf(fileName) == << "i", "n", "p", "u", "t", "_" >> \o fileName

\* `thumb_${i}.jpg`
thumbNameOf(index) == << "t", "h", "u", "m", "b", "_" >> \o toString(index) \o << ".", "j", "p", "g" >>

\* ------------------------------------------------------ engine arguments
\* An argument is a string, kept as the sequence of its pieces: a name or a
\* number character by character, a fixed word as one piece, a filter
\* descriptor as its labels, stages and separators.

PREMIUM_SETTINGS ==
    [watermark |-> << >>, resize |-> "none", normalize |-> FALSE, quality |-> "Medium"]

\* trimSettings.mode === 'copy' && resize === 'none' && !normalize && !watermark
usePassthroughModeOnly(mode, ps) == mode = "copy"
usePassthrough(mode, ps) ==
    mode = "copy" /\ ps.resize = "none" /\ ~ps.normalize /\ ps.watermark = << >>

\* the three stages appended when resize === '9:16'
reframeStages ==
    << "[0:v]", "scale=1080:1920:force_original_aspect_ratio=increase,crop=1080:1920,boxblur=20:10", "[bg]", ";",
       "[0:v]", "scale=1080:1920:force_original_aspect_ratio=decrease", "[fg]", ";",
       "[bg]", "[fg]", "overlay=(W-w)/2:(H-h)/2", "[v]", ";" >>

\* the stage appended when watermark is not empty
watermarkStage(lastLabel, text) ==
    << lastLabel, "drawtext=text='" >> \o text
        \o << "':x=w-tw-20:y=h-th-20:fontsize=48:fontcolor=white:shadowcolor=black:shadowx=2:shadowy=2",
              "[v_out]", ";" >>

\* if (filterComplex.endsWith(';')) filterComplex = filterComplex.slice(0, -1)
stripSeparatorKeeps(fc) == fc
stripSeparator(fc) ==
    IF Len(fc) > 0 /\ fc[Len(fc)] = ";" THEN SubSeq(fc, 1, Len(fc) - 1) ELSE fc

\* if (filterComplex) { push -filter_complex, -map lastLabel, -map 0:a? }
filterArgsMapAudioAlways(fc, lastLabel) ==
    IF fc # << >>
    THEN << << "-filter_complex" >>, stripSeparator(fc),
            << "-map" >>, << lastLabel >>, << "-map" >>, << "0:a?" >> >>
    ELSE << << "-map" >>, << "0:a?" >> >>
filterArgs(fc, lastLabel) ==
    IF fc # << >>
    THEN << << "-filter_complex" >>, stripSeparator(fc),
            << "-map" >>, << lastLabel >>, << "-map" >>, << "0:a?" >> >>
    ELSE << >>

\* if (premiumSettings.normalize) args.push('-af', 'loudnorm')
normalizeArgsAsFilterGraph(ps) ==
    IF ps.normalize THEN << << "-filter_complex" >>, << "loudnorm" >> >> ELSE << >>
normalizeArgs(ps) ==
    IF ps.normalize THEN << << "-af" >>, << "loudnorm" >> >> ELSE << >>

\* quality === 'High' ? '18' : quality === 'Medium' ? '23' : '28'
crfOf(quality) == IF quality = "High" THEN "18" ELSE IF quality = "Medium" THEN "23" ELSE "28"

\* the else branch: encoding mode or premium features required
encodeArgs(ps) ==
    LET label1 == IF ps.resize = "9:16" THEN "[v]" ELSE "[0:v]"
        fc1 == IF ps.resize = "9:16" THEN reframeStages ELSE << >>
        fc2 == IF ps.watermark # << >>
               THEN fc1 \o watermarkStage(label1, ps.watermark) ELSE fc1
        label2 == IF ps.watermark # << >> THEN "[v_out]" ELSE label1
    IN filterArgs(fc2, label2)
         \o normalizeArgs(ps)
         \o << << "-c:v" >>, << "libx264" >>, << "-preset" >>, << "veryfast" >>,
               << "-crf" >>, << crfOf(ps.quality) >> >>
         \o << << "-c:a" >>, << "aac" >>, << "-b:a" >>, << "128k" >> >>

\* let args = [...] up to args.push(outputName)
buildArgs(start, end, inputName, outputName, mode, ps) ==
    << << "-ss" >>, toFixed3(start), << "-i" >>, inputName,
       << "-t" >>, toFixed3(end - start) >>
      \o (IF usePassthrough(mode, ps)
          THEN << << "-c" >>, << "copy" >> >>
          ELSE encodeArgs(ps))
      \o << outputName >>

\* the arguments of the thumbnail exec
thumbArgs(start, inputName, thumbName) ==
    << << "-ss" >>, toFixed3(start), << "-i" >>, inputName,
       << "-vframes" >>, << "1" >>, << "-q:v" >>, << "2" >>, thumbName >>

\* ---------------------------------------------------------------- state

VARIABLES
    loading,         \* loadWithRetry has not yet returned
    loaded,          \* useState(false): the engine is loaded
    videoFile,       \* useState(null): 0 is null, else the file loaded
    metaPending,     \* the video element has not yet fired loadedmetadata
    duration,        \* useState(0), ticks
    markers,         \* useState([]): kept sorted, no duplicates
    clips,           \* useState([])
    isProcessing,    \* useState(false)
    message,         \* useState({text, type})
    trimSettings,    \* useState(DEFAULT_TRIM_SETTINGS)
    premiumSettings, \* useState(PREMIUM_SETTINGS)
    history,         \* useState([])
    shouldProcess,   \* shouldProcessRef.current
    pc,              \* where processVideo is suspended ("idle": not running)
    job,             \* what the running processVideo closed over
    jobs,            \* processVideo calls so far
    intervals,       \* let intervals
    i,               \* the loop index
    generatedClips,  \* const generatedClips
    execLog,         \* the ffmpeg.exec calls of the current job, in order
    objectUrls,      \* the URLs made by URL.createObjectURL for clips and
                     \* thumbnails and not yet passed to URL.revokeObjectURL
    currentTask      \* useState('')

vars == << loading, loaded, videoFile, metaPending, duration, markers, clips, isProcessing,
           message, trimSettings, premiumSettings, history, shouldProcess, pc, job, jobs,
           intervals, i, generatedClips, execLog, objectUrls, currentTask >>

engineVars == << loading, loaded >>
uiVars == << videoFile, metaPending, duration, markers, trimSettings, premiumSettings >>
loopVars == << intervals, i, generatedClips, execLog >>

Msg(text, type) == [text |-> text, type |-> type]

\* currentTask: '', 'Menyiapkan file...', or `Memotong bagian ${part} dari ${total}...`
Task(text, part, total) == [text |-> text, part |-> part, total |-> total]
NoTask == Task("", 0, 0)

\* the object URL of the blob of a clip ("clip") or of its thumbnail ("thumb")
Url(kind, id) == [kind |-> kind, clip |-> id]

\* the source files the user can load
SourceFiles == {1, 2}

\* videoRef.current.duration of each source file, ticks: 20 s and 47.05 s
FileDuration(f) == parseFloat(20) + (f - 1) * (parseFloat(27) + 1)

\* videoRef.current.currentTime: where the playhead is when a marker is added
CurrentTimes == {parseFloat(10)}

\* the clip duration the user selects in the application model (the default
\* is 30)
UiClipDurations == {15}

\* the remainder policies the user selects in the application model
UiAutoFits == {"merge"}

\* videoFile.name of each source file: 'movie.mp4' and 'clip.final.mov'
FileName(f) ==
    IF f = 1 THEN << "m", "o", "v", "i", "e", ".", "m", "p", "4" >>
    ELSE << "c", "l", "i", "p", ".", "f", "i", "n", "a", "l", ".", "m", "o", "v" >>

NoJob == [file |-> 0, duration |-> 0, markers |-> << >>,
          trimSettings |-> DEFAULT_TRIM_SETTINGS, premiumSettings |-> PREMIUM_SETTINGS]

Init ==
    /\ loading = TRUE
    /\ loaded = FALSE
    /\ videoFile = 0
    /\ metaPending = FALSE
    /\ duration = 0
    /\ markers = << >>
    /\ clips = << >>
    /\ isProcessing = FALSE
    /\ message = Msg("Memuat ffmpeg...", "info")
    /\ trimSettings = DEFAULT_TRIM_SETTINGS
    /\ premiumSettings = PREMIUM_SETTINGS
    /\ history = << >>
    /\ shouldProcess = FALSE
    /\ pc = "idle"
    /\ job = NoJob
    /\ jobs = 0
    /\ intervals = << >>
    /\ i = 0
    /\ generatedClips = << >>
    /\ execLog = << >>
    /\ objectUrls = {}
    /\ currentTask = NoTask

\* ------------------------------------------------------------ UI handlers

\* loadWithRetry: ffmpeg.load resolved
LoadFFmpeg ==
    /\ loading
    /\ loading' = FALSE
    /\ loaded' = TRUE
    /\ message' = Msg("FFmpeg siap!", "success")
    /\ UNCHANGED << objectUrls, currentTask, uiVars, clips, isProcessing, history, shouldProcess, pc, job,
                    jobs, loopVars >>

\* loadWithRetry: the last retry failed
LoadFFmpegFails ==
    /\ loading
    /\ loading' = FALSE
    /\ message' = Msg("Gagal memuat FFmpeg.", "error")
    /\ UNCHANGED << objectUrls, currentTask, loaded, uiVars, clips, isProcessing, history, shouldProcess, pc,
                    job, jobs, loopVars >>

\* handleFileUpload / handleDrop with a video file; the upload area is
\* rendered only while videoFile is null
Upload(f) ==
    /\ videoFile = 0
    /\ videoFile' = f
    /\ metaPending' = TRUE
    /\ markers' = << >>
    /\ clips' = << >>
    /\ message' = Msg("Video dimuat", "success")
    /\ UNCHANGED << objectUrls, currentTask, engineVars, duration, isProcessing, trimSettings, premiumSettings,
                    history, shouldProcess, pc, job, jobs, loopVars >>

\* onLoadedMetadata
OnLoadedMetadata ==
    /\ videoFile # 0
    /\ metaPending
    /\ metaPending' = FALSE
    /\ duration' = FileDuration(videoFile)
    /\ UNCHANGED << objectUrls, currentTask, engineVars, videoFile, markers, clips, isProcessing, message,
                    trimSettings, premiumSettings, history, shouldProcess, pc, job, jobs,
                    loopVars >>

\* the "Hapus video" button
RemoveVideo ==
    /\ videoFile # 0
    /\ videoFile' = 0
    /\ metaPending' = FALSE
    /\ markers' = << >>
    /\ clips' = << >>
    /\ UNCHANGED << objectUrls, currentTask, engineVars, duration, isProcessing, message, trimSettings,
                    premiumSettings, history, shouldProcess, pc, job, jobs, loopVars >>

SeqContains(s, x) == \E k \in 1..Len(s) : s[k] = x

\* addMarker
AddMarker(time) ==
    /\ videoFile # 0
    /\ time <= (IF metaPending THEN 0 ELSE FileDuration(videoFile))
    /\ ~SeqContains(markers, time)
    /\ markers' = SortSeq(Append(markers, time))
    /\ UNCHANGED << objectUrls, currentTask, engineVars, videoFile, metaPending, duration, clips, isProcessing,
                    message, trimSettings, premiumSettings, history, shouldProcess, pc, job,
                    jobs, loopVars >>

\* removeMarker(index)
RemoveMarker(index) ==
    /\ index \in 1..Len(markers)
    /\ markers' = SubSeq(markers, 1, index - 1) \o SubSeq(markers, index + 1, Len(markers))
    /\ UNCHANGED << objectUrls, currentTask, engineVars, videoFile, metaPending, duration, clips, isProcessing,
                    message, trimSettings, premiumSettings, history, shouldProcess, pc, job,
                    jobs, loopVars >>

\* the "Durasi Per Klip" and "Penanganan Sisa" selects
SetTrimSettings(d, fit) ==
    /\ trimSettings' = [trimSettings EXCEPT !.duration = d, !.autoFit = fit]
    /\ trimSettings' # trimSettings
    /\ UNCHANGED << objectUrls, currentTask, engineVars, videoFile, metaPending, duration, markers, clips,
                    premiumSettings, isProcessing, message, history, shouldProcess, pc,
                    job, jobs, loopVars >>

\* cancelProcessing; its button is rendered while isProcessing
CancelProcessing ==
    /\ isProcessing
    /\ shouldProcess' = FALSE
    /\ message' = Msg("Membatalkan proses...", "info")
    /\ UNCHANGED << objectUrls, currentTask, engineVars, uiVars, clips, isProcessing, history, pc, job, jobs,
                    loopVars >>

\* removeClip(id)
RemoveClip(id) ==
    /\ \E k \in 1..Len(clips) : clips[k].id = id
    /\ clips' = SelectSeq(clips, LAMBDA c : c.id # id)
    /\ UNCHANGED << objectUrls, currentTask, engineVars, uiVars, isProcessing, message, history, shouldProcess,
                    pc, job, jobs, loopVars >>

\* ------------------------------------------------------------ job driver

\* newClip
Clip(jobNo, k, iv, hasThumb, file, name) ==
    [id |-> << jobNo, k >>, index |-> k, startTime |-> iv.start, endTime |-> iv.end,
     hasThumb |-> hasThumb, file |-> file, name |-> name]

\* one ffmpeg.exec call
Exec(kind, k, args) == [kind |-> kind, index |-> k, args |-> args]

\* const outputName = generateClipName(i, start, end)
outputNameOf(k, iv) ==
    generateClipName(FileName(job.file), job.trimSettings.template, k, iv.start, iv.end)

\* the args of the main-clip exec of interval k
mainArgs(k, iv) ==
    buildArgs(iv.start, iv.end, inputNameOf(FileName(job.file)), outputNameOf(k, iv),
              job.trimSettings.mode, job.premiumSettings)

\* the seek position of the thumbnail exec: start.toFixed(3)
thumbSeekAtEnd(iv) == iv.end
thumbSeek(iv) == iv.start

\* the finally block; the call returns and its locals are gone
FinallyKeepsProcessing ==
    /\ isProcessing' = TRUE
    /\ shouldProcess' = FALSE
    /\ pc' = "idle"
    /\ job' = NoJob
    /\ intervals' = << >>
    /\ i' = 0
    /\ generatedClips' = << >>
    /\ execLog' = << >>
    /\ currentTask' = NoTask
Finally ==
    /\ isProcessing' = FALSE
    /\ shouldProcess' = FALSE
    /\ pc' = "idle"
    /\ job' = NoJob
    /\ intervals' = << >>
    /\ i' = 0
    /\ generatedClips' = << >>
    /\ execLog' = << >>
    /\ currentTask' = NoTask

\* the catch block
Catch ==
    /\ message' = Msg("Terjadi kesalahan saat memproses", "error")
    /\ Finally
    /\ UNCHANGED << objectUrls, engineVars, uiVars, clips, history, jobs >>

\* if (!shouldProcessRef.current && i > 0)
CancelCheckEveryIteration(k) == ~shouldProcess
CancelCheckAfterSecond(k) == ~shouldProcess /\ k > 1
CancelCheck(k) == ~shouldProcess /\ k > 0

\* after the loop: if (shouldProcessRef.current) { setHistory; setMessage }
AfterLoopRecordsAlways(gc) ==
    /\ history' = << [name |-> job.file, clipsCount |-> Len(gc)] >> \o history
    /\ message' = Msg("Selesai! Semua klip telah diproses.", "success")
    /\ Finally
AfterLoop(gc) ==
    /\ IF shouldProcess
       THEN /\ history' = << [name |-> job.file, clipsCount |-> Len(gc)] >> \o history
            /\ message' = Msg("Selesai! Semua klip telah diproses.", "success")
       ELSE UNCHANGED << history, message >>
    /\ Finally

\* the top of iteration k (0-based) of the loop over ivs with gc generated,
\* up to the next await or to the end of the call
Iterate(ivs, k, gc) ==
    IF k < Len(ivs)
    THEN IF CancelCheck(k)
         THEN /\ message' = Msg("Proses dibatalkan.", "info")
              /\ UNCHANGED history
              /\ Finally
         ELSE /\ intervals' = ivs
              /\ i' = k
              /\ generatedClips' = gc
              /\ execLog' = Append(execLog, Exec("main", k, mainArgs(k, ivs[k + 1])))
              /\ pc' = "execMain"
              /\ currentTask' = Task("Memotong bagian", k + 1, Len(ivs))
              /\ UNCHANGED << message, history, isProcessing, shouldProcess, job >>
    ELSE AfterLoop(gc)

\* processVideo up to its first await; the button is disabled unless
\* videoFile && !isProcessing && loaded
Start ==
    /\ videoFile # 0
    /\ loaded
    /\ ~isProcessing
    /\ jobs < MaxJobs
    /\ shouldProcess' = TRUE
    /\ isProcessing' = TRUE
    /\ clips' = << >>
    /\ job' = [file |-> videoFile, duration |-> duration, markers |-> markers,
               trimSettings |-> trimSettings, premiumSettings |-> premiumSettings]
    /\ jobs' = jobs + 1
    /\ pc' = "fetchFile"
    /\ currentTask' = Task("Menyiapkan file...", 0, 0)
    /\ intervals' = << >>
    /\ i' = 0
    /\ generatedClips' = << >>
    /\ execLog' = << >>
    /\ UNCHANGED << objectUrls, engineVars, uiVars, message, history >>

\* await fetchFile(videoFile)
FetchFileReturns ==
    /\ pc = "fetchFile"
    /\ pc' = "writeFile"
    /\ UNCHANGED << objectUrls, currentTask, engineVars, uiVars, clips, isProcessing, message, history,
                    shouldProcess, job, jobs, loopVars >>

FetchFileFails == pc = "fetchFile" /\ Catch

\* await ffmpeg.writeFile(...), the planning, the empty check and the first
\* iteration up to await ffmpeg.exec(args)
WriteFileReturns ==
    /\ pc = "writeFile"
    /\ LET ivs == planIntervals(job.duration, job.markers, job.trimSettings)
       IN IF Len(ivs) = 0
          THEN /\ message' = Msg("Tidak ada klip yang dapat dibuat.", "error")
               /\ Finally
               /\ UNCHANGED history
          ELSE Iterate(ivs, 0, << >>)
    /\ UNCHANGED << objectUrls, engineVars, uiVars, clips, jobs >>

WriteFileFails == pc = "writeFile" /\ Catch

\* await ffmpeg.exec(args) of the main clip
ExecMainReturns ==
    /\ pc = "execMain"
    /\ pc' = "readMain"
    /\ UNCHANGED << objectUrls, currentTask, engineVars, uiVars, clips, isProcessing, message, history,
                    shouldProcess, job, jobs, loopVars >>

\* a failure of the main clip taken as recoverable
ExecMainFailsSkips ==
    /\ pc = "execMain"
    /\ Iterate(intervals, i + 1, generatedClips)
    /\ UNCHANGED << objectUrls, engineVars, uiVars, clips, jobs >>
ExecMainFails == pc = "execMain" /\ Catch

\* await ffmpeg.readFile(outputName), then the thumbnail exec is issued
ReadMainReturns ==
    /\ pc = "readMain"
    /\ objectUrls' = objectUrls \cup {Url("clip", << jobs, i >>)}
    /\ execLog' = Append(execLog,
                          Exec("thumb", i,
                               thumbArgs(thumbSeek(intervals[i + 1]),
                                         inputNameOf(FileName(job.file)), thumbNameOf(i))))
    /\ pc' = "execThumb"
    /\ UNCHANGED << currentTask, engineVars, uiVars, clips, isProcessing, message, history,
                    shouldProcess, job, jobs, intervals, i, generatedClips >>

ReadMainFails == pc = "readMain" /\ Catch

\* await ffmpeg.exec([... thumbName])
ExecThumbReturns ==
    /\ pc = "execThumb"
    /\ pc' = "readThumb"
    /\ UNCHANGED << objectUrls, currentTask, engineVars, uiVars, clips, isProcessing, message, history,
                    shouldProcess, job, jobs, loopVars >>

\* generatedClips.push(newClip); setClips([...generatedClips]); then the next
\* iteration up to its await, or the end of the job
CompleteInterval(hasThumb) ==
    LET gc == Append(generatedClips,
                     Clip(jobs, i, intervals[i + 1], hasThumb, job.file,
                          outputNameOf(i, intervals[i + 1])))
    IN /\ clips' = gc
       /\ objectUrls' = (IF hasThumb THEN objectUrls \cup {Url("thumb", << jobs, i >>)}
                         ELSE objectUrls)
       /\ Iterate(intervals, i + 1, gc)
       /\ UNCHANGED << engineVars, uiVars, jobs >>

ReadThumbReturns == pc = "readThumb" /\ CompleteInterval(TRUE)

\* catch (thumbError)
ExecThumbFailsFatal == pc = "execThumb" /\ Catch
ExecThumbFails == pc = "execThumb" /\ CompleteInterval(FALSE)

ReadThumbFails == pc = "readThumb" /\ CompleteInterval(FALSE)

\* ----------------------------------------------------------- application

Next ==
    \/ LoadFFmpeg
    \/ LoadFFmpegFails
    \/ \E f \in SourceFiles : Upload(f)
    \/ OnLoadedMetadata
    \/ RemoveVideo
    \/ \E t \in CurrentTimes : AddMarker(t)
    \/ \E k \in 1..Len(markers) : RemoveMarker(k)
    \/ \E d \in UiClipDurations, fit \in UiAutoFits : SetTrimSettings(d, fit)
    \/ CancelProcessing
    \/ \E c \in {clips[k].id : k \in 1..Len(clips)} : RemoveClip(c)
    \/ Start
    \/ FetchFileReturns
    \/ FetchFileFails
    \/ WriteFileReturns
    \/ WriteFileFails
    \/ ExecMainReturns
    \/ ExecMainFails
    \/ ReadMainReturns
    \/ ReadMainFails
    \/ ExecThumbReturns
    \/ ExecThumbFails
    \/ ReadThumbReturns
    \/ ReadThumbFails

Spec == Init /\ [][Next]_vars

\* a pending call of processVideo returns or throws
JobStep ==
    \/ FetchFileReturns
    \/ FetchFileFails
    \/ WriteFileReturns
    \/ WriteFileFails
    \/ ExecMainReturns
    \/ ExecMainFails
    \/ ReadMainReturns
    \/ ReadMainFails
    \/ ExecThumbReturns
    \/ ExecThumbFails
    \/ ReadThumbReturns
    \/ ReadThumbFails

\* the clip durations of the jobs whose termination is checked
LiveClipDurations == UiClipDurations \cup {DEFAULT_TRIM_SETTINGS.duration}

\* the engine is loaded and a source file is chosen; its loadedmetadata event
\* has been delivered or not yet
LiveInit ==
    \E f \in SourceFiles, d \in LiveClipDurations, meta \in BOOLEAN :
        /\ loading = FALSE
        /\ loaded = TRUE
        /\ videoFile = f
        /\ metaPending = ~meta
        /\ duration = IF meta THEN FileDuration(f) ELSE 0
        /\ markers = << >>
        /\ clips = << >>
        /\ isProcessing = FALSE
        /\ message = Msg("Video dimuat", "success")
        /\ trimSettings = [DEFAULT_TRIM_SETTINGS EXCEPT !.duration = d]
        /\ premiumSettings = PREMIUM_SETTINGS
        /\ history = << >>
        /\ shouldProcess = FALSE
        /\ pc = "idle"
        /\ job = NoJob
        /\ jobs = 0
        /\ intervals = << >>
        /\ i = 0
        /\ generatedClips = << >>
        /\ execLog = << >>
        /\ objectUrls = {}
        /\ currentTask = NoTask

LiveNext ==
    \/ Start
    \/ CancelProcessing
    \/ JobStep

\* the awaits of processVideo, in program order
Awaits == {"fetchFile", "writeFile", "execMain", "readMain", "execThumb", "readThumb"}

\* the pending await of processVideo resolves or rejects and the call moves
\* on to its next await or to its end: the steps of JobStep are the steps
\* that change pc while a call is pending
AwaitResolves ==
    /\ pc \in Awaits
    /\ pc' \in Awaits \cup {"idle"}
    /\ pc' # pc

\* the jobs of the application when every pending fetchFile, writeFile, exec
\* and readFile eventually returns or throws
LiveSpec == LiveInit /\ [][LiveNext]_vars /\ WF_pc(AwaitResolves)

\* ------------------------------------------- the planner on bounded inputs

RECURSIVE SetToSortedSeq(_)
SetToSortedSeq(S) ==
    IF S = {} THEN << >>
    ELSE LET x == CHOOSE y \in S : \A z \in S : y <= z
         IN << x >> \o SetToSortedSeq(S \ {x})

\* marker mode: every non-empty marker set in [0, duration]
MarkerInputs ==
    { [duration |-> d, markers |-> SetToSortedSeq(S), trimSettings |-> DEFAULT_TRIM_SETTINGS] :
        << d, S >> \in { x \in (0..MaxMarkerDuration) \X SUBSET (0..MaxMarkerDuration) :
                           /\ x[2] # {}
                           /\ Cardinality(x[2]) <= MaxMarkers
                           /\ \A m \in x[2] : m <= x[1] } }

FixedDurations == { parseFloat(sec) + f : sec \in 0..MaxSeconds, f \in 0..MaxFrac }

\* fixed-interval mode: no markers, every setting
FixedInputs ==
    { [duration |-> d, markers |-> << >>,
       trimSettings |-> [DEFAULT_TRIM_SETTINGS EXCEPT !.duration = c, !.autoFit = fit,
                                                      !.remainderThreshold = th]] :
        d \in FixedDurations, c \in ClipDurations, fit \in AutoFits, th \in Thresholds }

\* a job that closed over the inputs and awaits writeFile
PlanInit ==
    \E in \in MarkerInputs \cup FixedInputs :
        /\ loading = FALSE
        /\ loaded = TRUE
        /\ videoFile = 1
        /\ metaPending = FALSE
        /\ duration = in.duration
        /\ markers = in.markers
        /\ clips = << >>
        /\ isProcessing = TRUE
        /\ message = Msg("Video dimuat", "success")
        /\ trimSettings = in.trimSettings
        /\ premiumSettings = PREMIUM_SETTINGS
        /\ history = << >>
        /\ shouldProcess = TRUE
        /\ pc = "writeFile"
        /\ job = [file |-> 1, duration |-> in.duration, markers |-> in.markers,
                  trimSettings |-> in.trimSettings, premiumSettings |-> PREMIUM_SETTINGS]
        /\ jobs = 1
        /\ intervals = << >>
        /\ i = 0
        /\ generatedClips = << >>
        /\ execLog = << >>
        /\ objectUrls = {}
        /\ currentTask = Task("Menyiapkan file...", 0, 0)

PlanNext == WriteFileReturns

PlanSpec == PlanInit /\ [][PlanNext]_vars

\* ------------------------------- naming and arguments on bounded inputs

RECURSIVE Flatten(_)
Flatten(ss) == IF Len(ss) = 0 THEN << >> ELSE Head(ss) \o Flatten(Tail(ss))

\* templates the user can type, as their pieces: the default, the bare
\* name, a literal, templates with one or with a repeated placeholder, and
\* the name behind the prefix 'input_'
TemplatePieces ==
    { << TokName, << "_", "p", "a", "r", "t" >>, TokIndex, << "_" >>, TokStart, << "-" >>, TokEnd >>,
      << TokName >>,
      << << "c", "l", "i", "p" >> >>,
      << TokPart, << "_" >>, TokName >>,
      << TokStart, << "-" >>, TokEnd >>,
      << TokIndex, << "_" >>, TokIndex >>,
      << << "i", "n", "p", "u", "t", "_" >>, TokName >> }

Templates == { Flatten(p) : p \in TemplatePieces }

Modes == {"copy", "encode"}
Resizes == {"none", "9:16"}
Qualities == {"High", "Medium", "Low"}
Watermarks == { << >>, << "H", "i" >> }

PremiumInputs ==
    [watermark : Watermarks, resize : Resizes, normalize : BOOLEAN, quality : Qualities]

\* media and cut points: markers at 10, 30 and 60 s of a 60 s file; fixed
\* 15 s clips of a 47.05 s file; markers at 0.5 and 1.25 s of a 1.5 s file
CutInputs ==
    { [duration |-> parseFloat(60),
       markers |-> << parseFloat(10), parseFloat(30), parseFloat(60) >>, clip |-> 30],
      [duration |-> parseFloat(47) + 1, markers |-> << >>, clip |-> 15],
      [duration |-> parseFloat(1) + 10, markers |-> << 10, 25 >>, clip |-> 30] }

\* a job that closed over the inputs and awaits writeFile
BuildInit ==
    \E f \in SourceFiles, in \in CutInputs, t \in Templates, m \in Modes, ps \in PremiumInputs :
        LET ts == [DEFAULT_TRIM_SETTINGS EXCEPT !.duration = in.clip, !.mode = m,
                                                !.template = t]
        IN /\ loading = FALSE
           /\ loaded = TRUE
           /\ videoFile = f
           /\ metaPending = FALSE
           /\ duration = in.duration
           /\ markers = in.markers
           /\ clips = << >>
           /\ isProcessing = TRUE
           /\ message = Msg("Video dimuat", "success")
           /\ trimSettings = ts
           /\ premiumSettings = ps
           /\ history = << >>
           /\ shouldProcess = TRUE
           /\ pc = "writeFile"
           /\ job = [file |-> f, duration |-> in.duration, markers |-> in.markers,
                     trimSettings |-> ts, premiumSettings |-> ps]
           /\ jobs = 1
           /\ intervals = << >>
           /\ i = 0
           /\ generatedClips = << >>
           /\ execLog = << >>
           /\ objectUrls = {}
           /\ currentTask = Task("Menyiapkan file...", 0, 0)

BuildNext ==
    \/ WriteFileReturns
    \/ ExecMainReturns
    \/ ReadMainReturns
    \/ ExecThumbReturns
    \/ ExecThumbFails
    \/ ReadThumbReturns

BuildSpec == BuildInit /\ [][BuildNext]_vars

\* ------------------------------------------------------------- properties

\* processVideo is suspended inside the loop; intervals is then the plan
InLoop == pc \in {"execMain", "readMain", "execThumb", "readThumb"}

\* Under PlanSpec the job closed over the current duration, markers and
\* trimSettings, and nothing changes them: once writeFile has returned the
\* job either awaits the first exec (the plan is intervals, non-empty) or has
\* ended on the empty plan.
Planned == pc # "writeFile"
PlanIsEmpty == pc = "idle" /\ message.text = "Tidak ada klip yang dapat dibuat."
MarkerMode == Len(markers) > 0
FixedMode(fit) == Len(markers) = 0 /\ trimSettings.autoFit = fit
clipDurTicks == parseFloat(trimSettings.duration)
thresholdTicks == parseFloat(trimSettings.remainderThreshold)
LastInterval == intervals[Len(intervals)]
IntervalList(pairs) == [k \in 1..Len(pairs) |->
                           Interval(parseFloat(pairs[k][1]), parseFloat(pairs[k][2]))]

\* some candidate end n * clipDur before the end of the media leaves a
\* remainder that is > 0 and strictly below the threshold
RemainderHit ==
    \E n \in 1..duration :
        /\ n * clipDurTicks < duration
        /\ duration - n * clipDurTicks < thresholdTicks

\* C1: a cancellation requested after the job started and before interval 0
\* begins (while fetchFile or writeFile is awaited) lets the job issue no
\* engine exec at all.
C1_NoExecAfterEarlyCancel ==
    [][(pc \in {"fetchFile", "writeFile"} /\ ~shouldProcess) => execLog' = << >>]_vars

\* C2: fixed-interval mode under merge, duration > 0: the plan starts at 0,
\* its end values are strictly increasing, each interval ends where the
\* next starts, and the last interval ends at exactly duration.
C2_MergeCoversExactly ==
    (Planned /\ FixedMode("merge") /\ duration > 0) =>
        /\ InLoop
        /\ intervals[1].start = 0
        /\ \A k \in 1..(Len(intervals) - 1) :
              /\ intervals[k].end = intervals[k + 1].start
              /\ intervals[k].end < intervals[k + 1].end
        /\ LastInterval.end = duration

C2_Witness ==
    /\ InLoop /\ FixedMode("merge")
    /\ Len(intervals) >= 3
    /\ RemainderHit

\* C3: marker mode, duration > 0, markers in [0, duration]: the first
\* interval starts at 0 and the last ends at exactly duration.
C3_MarkerPlanSpansMedia ==
    (InLoop /\ MarkerMode /\ duration > 0) =>
        /\ intervals[1].start = 0
        /\ LastInterval.end = duration

\* C4: marker mode: consecutive intervals meet, intervals[k].end equals
\* intervals[k+1].start.
C4_MarkerPlanGapFree ==
    (InLoop /\ MarkerMode) =>
        \A k \in 1..(Len(intervals) - 1) : intervals[k].end = intervals[k + 1].start

\* C5: fixed-interval mode under discard, duration > 0: no interval ends
\* after duration; the last interval ends strictly before duration exactly
\* when a remainder > 0 and below the threshold was met, and then every
\* interval has the full clip length and none covers the remainder.
C5_DiscardDropsRemainder ==
    (Planned /\ FixedMode("discard") /\ duration > 0) =>
        /\ InLoop
        /\ \A k \in 1..Len(intervals) : intervals[k].end <= duration
        /\ (LastInterval.end < duration) <=> RemainderHit
        /\ RemainderHit =>
              /\ LastInterval.end = Len(intervals) * clipDurTicks
              /\ duration - LastInterval.end < thresholdTicks

C5_Witness ==
    /\ InLoop /\ FixedMode("discard")
    /\ RemainderHit
    /\ Len(intervals) >= 2
    /\ LastInterval.end < duration

\* C6: the plan is empty only when duration <= 0.
C6_EmptyOnlyWithoutDuration == PlanIsEmpty => duration <= 0

\* C7: every planned interval satisfies 0 <= start < end <= duration, in
\* marker mode and in fixed-interval mode under merge and discard.
C7_IntervalsWellFormed ==
    InLoop =>
        \A k \in 1..Len(intervals) :
            /\ 0 <= intervals[k].start
            /\ intervals[k].start < intervals[k].end
            /\ intervals[k].end <= duration

\* a marker at the cursor: a marker at 0, or a marker equal to duration
C7_Witness ==
    /\ InLoop /\ MarkerMode
    /\ markers[1] = 0
    /\ markers[Len(markers)] = duration
    /\ Len(intervals) >= 2

C8_Case ==
    /\ Planned /\ Len(markers) = 0
    /\ duration = parseFloat(95)
    /\ trimSettings.duration = 30
    /\ trimSettings.autoFit = "merge"
    /\ trimSettings.remainderThreshold = 5

\* C8 as stated: duration 95, interval 30, threshold 5, merge plans exactly
\* [0,30], [30,60], [60,95].
C8_ThreeIntervals ==
    C8_Case => (InLoop /\ intervals = IntervalList(<< <<0, 30>>, <<30, 60>>, <<60, 95>> >>))

\* C8 amended: duration 95, interval 30, threshold 5, merge plans exactly
\* [0,30], [30,60], [60,90], [90,95]: the remainder 5 is not strictly below
\* the threshold 5 and is not merged.
C8_FourIntervals ==
    C8_Case =>
        (InLoop /\ intervals = IntervalList(<< <<0, 30>>, <<30, 60>>, <<60, 90>>, <<90, 95>> >>))

C8_Witness == C8_Case /\ InLoop

\* C9: fixed-interval mode under merge: a trailing remainder > 0 and below
\* the threshold is not an interval of its own (a last interval that is not
\* the only one is at least threshold long), and when such a remainder was
\* met the last interval ends at duration and is at least one clip long;
\* 65/30/6 plans [0,30],[30,65] and 95/30/6 plans [0,30],[30,60],[60,95].
C9_MergeAbsorbsRemainder ==
    (Planned /\ FixedMode("merge") /\ duration > 0) =>
        /\ InLoop
        /\ Len(intervals) >= 2 => LastInterval.end - LastInterval.start >= thresholdTicks
        /\ RemainderHit =>
              /\ LastInterval.end = duration
              /\ LastInterval.end - LastInterval.start >= clipDurTicks
        /\ (trimSettings.duration = 30 /\ trimSettings.remainderThreshold = 6) =>
              /\ duration = parseFloat(65) =>
                    intervals = IntervalList(<< <<0, 30>>, <<30, 65>> >>)
              /\ duration = parseFloat(95) =>
                    intervals = IntervalList(<< <<0, 30>>, <<30, 60>>, <<60, 95>> >>)

C9_Witness ==
    /\ InLoop /\ FixedMode("merge")
    /\ duration = parseFloat(65)
    /\ trimSettings.duration = 30 /\ trimSettings.remainderThreshold = 6
    /\ Len(intervals) = 2

\* the number of intervals planned (0 for the empty plan)
PlanLen == IF InLoop THEN Len(intervals) ELSE 0

\* the entries of a sorted sequence that exceed their predecessor (0 before
\* the first) by more than Eps
Surviving(b) ==
    { k \in 1..Len(b) : b[k] > (IF k = 1 THEN 0 ELSE b[k - 1]) + Eps }

\* C10 as stated: in marker mode the number of intervals equals the number
\* of markers that remain after collapsing those within 0.1 s of the
\* preceding one.
C10_CountEqualsMarkers ==
    (Planned /\ MarkerMode) => PlanLen = Cardinality(Surviving(markers))

\* C10 amended: in marker mode the number of intervals equals the number of
\* boundaries, the sorted markers followed by duration, that exceed the
\* preceding boundary (0 before the first) by more than 0.1 s.
C10_CountEqualsBoundaries ==
    (Planned /\ MarkerMode) => PlanLen = Cardinality(Surviving(Append(markers, duration)))

C10_Witness ==
    /\ InLoop /\ MarkerMode
    /\ Len(intervals) >= 2
    /\ Cardinality(Surviving(Append(markers, duration))) < Len(markers) + 1

\* ---------------------------------------------------- argument properties

\* an argument that is the one fixed word w
HasFlag(args, w) == \E k \in 1..Len(args) : args[k] = << w >>

\* the adjacent arguments w, v
HasPair(args, w, v) ==
    \E k \in 1..(Len(args) - 1) : args[k] = << w >> /\ args[k + 1] = << v >>

\* the main-clip exec calls issued so far by the running job
MainExecs == { execLog[k] : k \in { j \in 1..Len(execLog) : execLog[j].kind = "main" } }

\* Under BuildSpec the job closed over the current settings and file, and
\* nothing changes them.
Reframe == premiumSettings.resize = "9:16"
Watermark == premiumSettings.watermark # << >>
Normalize == premiumSettings.normalize
NoTransform == ~Reframe /\ ~Watermark /\ ~Normalize

EncodeFlags == {"-c:v", "-preset", "-crf", "-c:a"}

\* C11: the args of an interval hold '-c','copy' if and only if mode is
\* 'copy' and no transform is active; otherwise they hold the re-encode
\* arguments (video encoder, preset, crf, audio encoder), and the two never
\* occur together.
C11_CopyIffPassthrough ==
    \A e \in MainExecs :
        LET copy == HasPair(e.args, "-c", "copy")
        IN /\ copy <=> (trimSettings.mode = "copy" /\ NoTransform)
           /\ ~copy => /\ HasPair(e.args, "-c:v", "libx264")
                       /\ HasPair(e.args, "-preset", "veryfast")
                       /\ HasPair(e.args, "-crf", crfOf(premiumSettings.quality))
                       /\ HasPair(e.args, "-c:a", "aac")
           /\ copy => \A w \in EncodeFlags : ~HasFlag(e.args, w)

\* a transform forced the re-encode of a job in 'copy' mode
C11_Witness ==
    /\ pc = "execMain"
    /\ trimSettings.mode = "copy" /\ Normalize /\ ~Reframe /\ ~Watermark
    /\ \E e \in MainExecs : HasFlag(e.args, "-crf") /\ ~HasFlag(e.args, "-c")

\* C12: 'copy' mode with no transform never emits a filter-graph argument;
\* with exactly one transform active one is always emitted, also in 'copy'
\* mode: '-filter_complex' for the reframe alone or the watermark alone, and
\* the audio filter graph '-af','loudnorm' (and no '-filter_complex') for
\* the normalization alone.
C12_FilterGraphIffTransform ==
    \A e \in MainExecs :
        /\ (trimSettings.mode = "copy" /\ NoTransform) =>
              ~HasFlag(e.args, "-filter_complex") /\ ~HasFlag(e.args, "-af")
        /\ ((Reframe /\ ~Watermark /\ ~Normalize) \/ (Watermark /\ ~Reframe /\ ~Normalize)) =>
              HasFlag(e.args, "-filter_complex") /\ ~HasFlag(e.args, "-af")
        /\ (Normalize /\ ~Reframe /\ ~Watermark) =>
              HasPair(e.args, "-af", "loudnorm") /\ ~HasFlag(e.args, "-filter_complex")

\* 'copy' mode and the watermark alone: a filter graph is emitted
C12_Witness ==
    /\ pc = "execMain"
    /\ trimSettings.mode = "copy" /\ Watermark /\ ~Reframe /\ ~Normalize
    /\ \E e \in MainExecs : HasFlag(e.args, "-filter_complex")

\* the exec took the re-encode path
ReEncoded(e) == HasFlag(e.args, "-c:v")

\* C13 as stated: on the re-encode path '-map','0:a?' is always emitted, for
\* every combination of transforms.
C13_AudioAlwaysMapped ==
    \A e \in MainExecs : ReEncoded(e) => HasPair(e.args, "-map", "0:a?")

\* C13: on the re-encode path '-map','0:a?' is emitted exactly when a filter
\* graph is (reframe or watermark active), next to the '-map' of the last
\* video label; without a filter graph the args hold no '-map' at all.
C13_AudioMappedWithFilterGraph ==
    \A e \in MainExecs :
        ReEncoded(e) =>
            /\ HasPair(e.args, "-map", "0:a?") <=> (Reframe \/ Watermark)
            /\ HasFlag(e.args, "-filter_complex") <=> (Reframe \/ Watermark)
            /\ HasFlag(e.args, "-map") <=> (Reframe \/ Watermark)

\* a re-encode with a filter graph, audio mapped
C13_Witness ==
    /\ pc = "execMain"
    /\ Reframe /\ Watermark
    /\ \E e \in MainExecs : ReEncoded(e) /\ HasPair(e.args, "-map", "0:a?")
                              /\ HasPair(e.args, "-map", "[v_out]")

\* ------------------------------------------------------ driver properties

\* an exec call is pending
ExecInFlight == pc \in {"execMain", "execThumb"}

\* processVideo awaits the thumbnail exec or the read of its output
ThumbPhase == pc \in {"execThumb", "readThumb"}

\* this step issues an exec call
IssuesExec == Len(execLog') = Len(execLog) + 1

\* the exec call this step issues
Issued == execLog'[Len(execLog')]

\* the exec calls are main 0, thumb 0, main 1, thumb 1, ..., each thumbnail
\* seeking to the '-ss' value of the main clip before it
InIndexOrder(log) ==
    \A k \in 1..Len(log) :
        /\ log[k].index = (k - 1) \div 2
        /\ log[k].kind = (IF k % 2 = 1 THEN "main" ELSE "thumb")
        /\ log[k].args[1] = << "-ss" >>
        /\ k % 2 = 0 => log[k].args[2] = log[k - 1].args[2]

\* C14: within a job the exec calls are issued in interval index order, main
\* clip then thumbnail at the same start time; the main clip of interval
\* i + 1 is issued only by the step in which the thumbnail of interval i
\* returned or failed; a call is issued only by a step that ends the wait
\* for the previous one, so no two are ever in flight.
C14_ExecsSequential ==
    [][ /\ InIndexOrder(execLog')
        /\ IssuesExec =>
              /\ SubSeq(execLog', 1, Len(execLog)) = execLog
              /\ ExecInFlight'
              /\ Issued.kind = "thumb" => pc = "readMain" /\ Issued.index = i
              /\ (Issued.kind = "main" /\ Issued.index = 0) => pc = "writeFile"
              /\ (Issued.kind = "main" /\ Issued.index > 0) =>
                    ThumbPhase /\ Issued.index = i + 1
        /\ (ExecInFlight /\ ~IssuesExec) => ~ExecInFlight' \/ UNCHANGED << pc, execLog >>
      ]_vars

\* the main clip of the second interval is in flight after both calls of
\* the first
C14_Witness ==
    /\ pc = "execMain" /\ i = 1
    /\ Len(execLog) = 3
    /\ execLog[2].kind = "thumb" /\ execLog[2].args[2] = execLog[1].args[2]

\* the clip of the interval the job is at
ClipOfCurrent(hasThumb) ==
    [id |-> << jobs, i >>, index |-> i, startTime |-> intervals[i + 1].start,
     endTime |-> intervals[i + 1].end, hasThumb |-> hasThumb, file |-> job.file,
     name |-> execLog[2 * i + 1].args[Len(execLog[2 * i + 1].args)]]

\* this step ends the thumbnail phase of interval i on a failure: of the
\* exec, or of the read (the clip is then pushed without a thumbnail)
ThumbnailFailed ==
    /\ ThumbPhase /\ ~ThumbPhase'
    /\ pc = "execThumb" \/ (Len(clips') > 0 /\ ~clips'[Len(clips')].hasThumb)

\* C15: when the thumbnail exec or readFile of interval i fails, the clip of
\* interval i is still pushed, without a thumbnail, and shown; the step sets
\* no error message; the loop goes on to interval i + 1 (its main-clip exec is
\* issued) unless i was the last interval or the job was cancelled.
C15_ThumbnailFailureNonFatal ==
    [][ ThumbnailFailed =>
          /\ clips' = Append(generatedClips, ClipOfCurrent(FALSE))
          /\ message' # message => message'.type # "error"
          /\ IF i + 1 < Len(intervals) /\ shouldProcess
             THEN /\ pc' = "execMain" /\ i' = i + 1
                  /\ generatedClips' = clips'
                  /\ IssuesExec /\ Issued.kind = "main" /\ Issued.index = i + 1
             ELSE pc' = "idle"
      ]_vars

\* the first clip has no thumbnail and the second interval is being cut
C15_Witness ==
    /\ pc = "execMain" /\ i = 1
    /\ Len(generatedClips) = 1 /\ ~generatedClips[1].hasThumb
    /\ Len(clips) = 1 /\ ~clips[1].hasThumb
    /\ message.type # "error"
    /\ shouldProcess

\* this step is the failure of the main clip of interval i (exec or read)
MainClipFailed == pc \in {"execMain", "readMain"} /\ pc' = "idle"

\* C16: when the engine fails on the main clip of interval i, the job ends
\* with the error message; neither the thumbnail of interval i nor anything
\* of a later interval was or is executed; history gets no entry; the clips
\* shown, those of intervals 0..i-1, stay.
C16_MainFailureFatal ==
    [][ MainClipFailed =>
          /\ message' = Msg("Terjadi kesalahan saat memproses", "error")
          /\ ~isProcessing'
          /\ ~IssuesExec
          /\ \A k \in 1..Len(execLog) :
                /\ execLog[k].index <= i
                /\ execLog[k].index = i => execLog[k].kind = "main"
          /\ history' = history
          /\ clips' = clips
          /\ \A k \in 1..Len(generatedClips) : generatedClips[k].index < i
      ]_vars

\* the job failed after its first interval: one clip shown, the error
\* message, no history entry
C16_Witness ==
    /\ pc = "idle" /\ jobs = 1
    /\ message = Msg("Terjadi kesalahan saat memproses", "error")
    /\ Len(clips) = 1 /\ clips[1].index = 0
    /\ history = << >>

\* this step ends a job during which cancelProcessing was called
CancelledJobEnds == pc # "idle" /\ pc' = "idle" /\ ~shouldProcess

\* C17 as stated: a job during which cancelProcessing was called ends with
\* the clips produced so far still shown and the message 'Proses
\* dibatalkan.', never the error message and never the success message.
C17_CancelEndsCancelled ==
    [][ CancelledJobEnds =>
          /\ \A k \in 1..Len(clips) : \E j \in 1..Len(clips') : clips'[j] = clips[k]
          /\ message' = Msg("Proses dibatalkan.", "info")
      ]_vars

\* C18: cancelProcessing called while the main-clip or thumbnail exec of
\* interval i is in flight leaves the call pending; from then on the job
\* issues no exec but the thumbnail of interval i, and when the thumbnail
\* phase ends the clip of interval i is pushed and the job ends.
C18_CancelAtBoundary ==
    [][ /\ (ExecInFlight /\ shouldProcess /\ ~shouldProcess' /\ isProcessing') =>
              UNCHANGED << pc, i, intervals, generatedClips, execLog, clips >>
        /\ (InLoop /\ ~shouldProcess /\ IssuesExec) =>
              Issued.kind = "thumb" /\ Issued.index = i
        /\ (ThumbPhase /\ ~ThumbPhase' /\ ~shouldProcess) =>
              /\ Len(clips') = Len(generatedClips) + 1
              /\ clips'[Len(clips')].index = i
              /\ pc' = "idle"
      ]_vars

\* the job was cancelled during its first interval and stopped before the
\* second: the clip of interval 0 is shown
C18_Witness ==
    /\ pc = "idle" /\ jobs = 1
    /\ message = Msg("Proses dibatalkan.", "info")
    /\ Len(clips) = 1 /\ clips[1].index = 0

\* ------------------------------------------------------ naming properties

Placeholders == {TokName, TokPart, TokIndex, TokStart, TokEnd}

\* the templates in which no placeholder occurs twice
OncePieces ==
    { p \in TemplatePieces :
        \A tok \in Placeholders : Cardinality({ k \in 1..Len(p) : p[k] = tok }) <= 1 }

\* the file names without their extension, written out
ExpectedBase == IF videoFile = 1 THEN << "m", "o", "v", "i", "e" >> ELSE << "c", "l", "i", "p", ".", "f", "i", "n", "a", "l" >>

\* what a piece of the template stands for in the name of clip c (the
\* ordinals here are below 10)
PieceValue(piece, c) ==
    IF piece = TokName THEN ExpectedBase
    ELSE IF piece = TokIndex THEN toString(c.index + 1)
    ELSE IF piece = TokPart THEN << "0", "0" >> \o toString(c.index + 1)
    ELSE IF piece = TokStart THEN toString(c.startTime \div TicksPerSecond)
    ELSE IF piece = TokEnd THEN toString(c.endTime \div TicksPerSecond)
    ELSE piece

OutputOf(e) == e.args[Len(e.args)]

\* C20 as stated: within a job two distinct intervals get distinct clip
\* names and distinct thumbnail names, whatever the template.
C20_NamesDistinct ==
    /\ \A a, b \in 1..Len(clips) : a # b => clips[a].name # clips[b].name
    /\ \A a, b \in 1..Len(execLog) :
          a # b => OutputOf(execLog[a]) # OutputOf(execLog[b])

\* ---------------------------------------------------- resource properties

\* the ids of the clips in the list
ShownIds == { clips[k].id : k \in 1..Len(clips) }

\* the id of the clip being made, while the job is in the loop
InProgressIds == IF InLoop THEN {<< jobs, i >>} ELSE {}

\* C21 as stated: every object URL made for a clip or its thumbnail and not
\* revoked belongs to a clip in the list (or to the clip being made): the
\* URLs of a clip are revoked when it is removed, when a source is loaded or
\* removed, and when a new job clears the list.
C21_UrlsBelongToClips ==
    \A u \in objectUrls : u.clip \in ShownIds \cup InProgressIds

\* a job that closed over a duration of 0 is running
JobWithoutDuration == pc # "idle" /\ job.duration <= 0

\* C22: a job whose duration is <= 0 when it plans issues no exec for a clip
\* or a thumbnail, makes no clip, no object URL and no history entry, and
\* ends with an error message and isProcessing false.
C22_NoDurationNoJob ==
    [][ JobWithoutDuration =>
          /\ ~IssuesExec /\ execLog' = << >>
          /\ clips' = << >> /\ generatedClips' = << >>
          /\ objectUrls' = objectUrls
          /\ history' = history
          /\ pc' \in {"idle", "fetchFile", "writeFile"}
          /\ pc' = "idle" => /\ message'.type = "error"
                             /\ ~isProcessing' /\ ~shouldProcess'
      ]_vars

\* the job on a file whose metadata had not loaded ended on the empty plan
C22_Witness ==
    /\ pc = "idle" /\ jobs = 1 /\ duration = 0 /\ videoFile # 0
    /\ message = Msg("Tidak ada klip yang dapat dibuat.", "error")
    /\ ~isProcessing /\ clips = << >> /\ history = << >>

\* ------------------------------------------- the basic auto-clipper (App)
\* The basic application cuts every 30 s with stream copy. Its state is
\* loaded, videoFile, clips, isProcessing and message; processVideo has the
\* locals duration, i and generatedClips. The other variables are not part
\* of it and keep their initial values.

\* const clipDuration = 30
clipDuration == 30

basicUnused == << loading, loaded, metaPending, markers, trimSettings, premiumSettings,
                  history, shouldProcess, job, intervals, currentTask >>

\* the basic application's message is a plain string
BasicMsg(text) == Msg(text, "")

\* Math.ceil(duration / clipDuration), duration in ticks
numberOfClipsFloor(d) == d \div parseFloat(clipDuration)
numberOfClips(d) == (d + parseFloat(clipDuration) - 1) \div parseFloat(clipDuration)

\* `clip-${i + 1}.mp4`
basicOutputName(k) == << "c", "l", "i", "p", "-" >> \o toString(k + 1) \o ExtMp4

\* the args of the exec of clip k: startTime = i * clipDuration, in seconds
basicArgs(k, name) ==
    << << "-ss" >>, toString(k * clipDuration), << "-i" >>, name,
       << "-t" >>, toString(clipDuration), << "-c" >>, << "copy" >>, basicOutputName(k) >>

\* generatedClips.push({url, name, index, startTime, endTime})
BasicClip(jobNo, k, d) ==
    [id |-> << jobNo, k >>, name |-> basicOutputName(k), index |-> k,
     startTime |-> k * parseFloat(clipDuration),
     endTime |-> Min(k * parseFloat(clipDuration) + parseFloat(clipDuration), d)]

\* the application after ffmpeg.load() resolved
BasicInit ==
    /\ loading = FALSE
    /\ loaded = TRUE
    /\ videoFile = 0
    /\ metaPending = FALSE
    /\ duration = 0
    /\ markers = << >>
    /\ clips = << >>
    /\ isProcessing = FALSE
    /\ message = BasicMsg("FFmpeg siap digunakan.")
    /\ trimSettings = DEFAULT_TRIM_SETTINGS
    /\ premiumSettings = PREMIUM_SETTINGS
    /\ history = << >>
    /\ shouldProcess = FALSE
    /\ pc = "idle"
    /\ job = NoJob
    /\ jobs = 0
    /\ intervals = << >>
    /\ i = 0
    /\ generatedClips = << >>
    /\ execLog = << >>
    /\ objectUrls = {}
    /\ currentTask = NoTask

\* handleFileUpload; the input is disabled while isProcessing
BasicUpload(f) ==
    /\ loaded /\ ~isProcessing
    /\ videoFile' = f
    /\ clips' = << >>
    /\ message' = BasicMsg("Video dipilih")
    /\ UNCHANGED << basicUnused, duration, isProcessing, pc, jobs, i, generatedClips,
                    execLog, objectUrls >>

\* processVideo up to its first await; the button is disabled unless
\* loaded && videoFile && !isProcessing
BasicStart ==
    /\ loaded /\ videoFile # 0 /\ ~isProcessing
    /\ jobs < MaxJobs
    /\ objectUrls' = objectUrls \ { Url("clip", clips[k].id) : k \in 1..Len(clips) }
    /\ isProcessing' = TRUE
    /\ clips' = << >>
    /\ message' = BasicMsg("Mulai memproses video...")
    /\ jobs' = jobs + 1
    /\ pc' = "writeFile"
    /\ UNCHANGED << basicUnused, videoFile, duration, i, generatedClips, execLog >>

\* the finally block; the call returns and its locals are gone
BasicFinally ==
    /\ isProcessing' = FALSE
    /\ pc' = "idle"
    /\ duration' = 0
    /\ i' = 0
    /\ generatedClips' = << >>
    /\ execLog' = << >>

\* the catch block
BasicCatch ==
    /\ message' = BasicMsg("Terjadi kesalahan saat memproses video.")
    /\ BasicFinally
    /\ UNCHANGED << basicUnused, videoFile, clips, jobs, objectUrls >>

\* the top of iteration k of the loop over a file of duration d with gc
\* generated, up to await ffmpeg.exec or to the end of the call
BasicIterate(d, k, gc) ==
    IF k < numberOfClips(d)
    THEN /\ duration' = d
         /\ i' = k
         /\ generatedClips' = gc
         /\ message' = BasicMsg("Memproses bagian")
         /\ execLog' = Append(execLog, Exec("main", k, basicArgs(k, FileName(videoFile))))
         /\ pc' = "exec"
         /\ UNCHANGED isProcessing
    ELSE /\ message' = BasicMsg("Proses selesai! Semua bagian telah dipotong.")
         /\ BasicFinally

\* await ffmpeg.writeFile(name, await fetchFile(videoFile))
BasicWriteFileReturns ==
    /\ pc = "writeFile"
    /\ pc' = "getDuration"
    /\ UNCHANGED << basicUnused, videoFile, duration, clips, isProcessing, message, jobs,
                    i, generatedClips, execLog, objectUrls >>

\* await getDuration(videoFile) resolves with d; the loop starts
BasicGetDurationReturns(d) ==
    /\ pc = "getDuration"
    /\ BasicIterate(d, 0, << >>)
    /\ UNCHANGED << basicUnused, videoFile, clips, jobs, objectUrls >>

\* await ffmpeg.exec([...]) of clip i
BasicExecReturns ==
    /\ pc = "exec"
    /\ pc' = "readFile"
    /\ UNCHANGED << basicUnused, videoFile, duration, clips, isProcessing, message, jobs,
                    i, generatedClips, execLog, objectUrls >>

BasicExecFails == pc = "exec" /\ BasicCatch

\* await ffmpeg.readFile(outputName); the clip is pushed and shown; then the
\* next iteration up to its await, or the end of the job
BasicReadFileReturns ==
    /\ pc = "readFile"
    /\ LET gc == Append(generatedClips, BasicClip(jobs, i, duration))
       IN /\ objectUrls' = objectUrls \cup {Url("clip", << jobs, i >>)}
          /\ clips' = gc
          /\ BasicIterate(duration, i + 1, gc)
    /\ UNCHANGED << basicUnused, videoFile, jobs >>

BasicNext ==
    \/ \E f \in SourceFiles : BasicUpload(f)
    \/ BasicStart
    \/ BasicWriteFileReturns
    \/ \E d \in FixedDurations : BasicGetDurationReturns(d)
    \/ BasicExecReturns
    \/ BasicExecFails
    \/ BasicReadFileReturns

BasicSpec == BasicInit /\ [][BasicNext]_vars

\* the least n with n * 30 s >= d
CeilClips(d) ==
    CHOOSE n \in 0..(d + 1) :
        /\ n * parseFloat(clipDuration) >= d
        /\ \A m \in 0..(n - 1) : m * parseFloat(clipDuration) < d

\* clip k (0-based) of a file of duration d, as the claim describes it
ExpectedBasicClip(k, d) ==
    [name |-> << "c", "l", "i", "p", "-" >> \o toString(k + 1) \o << ".", "m", "p", "4" >>,
     index |-> k, startTime |-> parseFloat(30 * k),
     endTime |-> Min(parseFloat(30 * (k + 1)), d)]

\* the part of a clip the claim speaks of
Described(c) ==
    [name |-> c.name, index |-> c.index, startTime |-> c.startTime, endTime |-> c.endTime]

\* C23: the basic processVideo cuts a file of duration d > 0 into exactly
\* ceil(d/30) clips: the execs are issued in increasing index order, each
\* with '-ss' 30*i, '-c','copy' and the output name 'clip-(i+1).mp4'; when
\* clip i completes the list shown holds exactly the clips 0..i, clip k
\* starting at 30*k and ending at min(30*(k+1), d); the job ends with the
\* completion message exactly when ceil(d/30) clips are shown.
C23_BasicClipper ==
    [][ /\ IssuesExec =>
              LET k == Len(execLog)
              IN /\ duration' > 0 /\ k < CeilClips(duration')
                 /\ Issued.index = k
                 /\ Issued.args[2] = toString(30 * k)
                 /\ HasPair(Issued.args, "-c", "copy")
                 /\ OutputOf(Issued) = ExpectedBasicClip(k, duration').name
        /\ (pc = "readFile" /\ pc' # "readFile") =>
              /\ Len(clips') = i + 1
              /\ \A k \in 1..(i + 1) : Described(clips'[k]) = ExpectedBasicClip(k - 1, duration)
              /\ pc' = "idle" <=> i + 1 = CeilClips(duration)
              /\ pc' = "idle" =>
                    message' = BasicMsg("Proses selesai! Semua bagian telah dipotong.")
      ]_vars

\* a file of 60.05 s was cut into three clips, the last ending at 60.05 s
C23_Witness ==
    /\ pc = "idle" /\ jobs = 1
    /\ message = BasicMsg("Proses selesai! Semua bagian telah dipotong.")
    /\ Len(clips) = 3
    /\ clips[3].startTime = parseFloat(60) /\ clips[3].endTime = parseFloat(60) + 1
    /\ clips[3].name = << "c", "l", "i", "p", "-", "3", ".", "m", "p", "4" >>

\* ------------------------------------------------ more argument properties

\* the name of the virtual input file of the job under BuildSpec
InputName == inputNameOf(FileName(videoFile))

\* C24 as stated: the input file, written once before any exec, is never
\* overwritten: every exec reads it with '-i', and no main-clip output name
\* and no thumbnail name equals it, whatever the template and the file name.
C24_InputNeverOverwritten ==
    \A k \in 1..Len(execLog) :
        /\ HasFlag(execLog[k].args, "-i") /\ execLog[k].args[4] = InputName
        /\ OutputOf(execLog[k]) # InputName

\* the position of the argument '-filter_complex' in args, 0 when absent
FilterAt(args) ==
    IF HasFlag(args, "-filter_complex")
    THEN CHOOSE k \in 1..Len(args) : args[k] = << "-filter_complex" >>
    ELSE 0

\* piece w is directly followed by piece v in the descriptor fc
Feeds(fc, w, v) == \E k \in 1..(Len(fc) - 1) : fc[k] = w /\ fc[k + 1] = v

\* the position of piece w in fc (it occurs once)
PieceAt(fc, w) == CHOOSE k \in 1..Len(fc) : fc[k] = w

\* C25: on the re-encode path the stages are chained reframe first, then
\* watermark: the text-draw stage consumes '[v]', the reframe output, when
\* the reframe is active and '[0:v]' otherwise; the label mapped with
\* '-map' right after the descriptor is the label the last stage produces;
\* the descriptor does not end with the separator; with neither reframe nor
\* watermark no '-filter_complex' is emitted.
C25_FilterChain ==
    \A e \in MainExecs :
        LET at == FilterAt(e.args)
            fc == e.args[at + 1]
        IN /\ at # 0 <=> (Reframe \/ Watermark)
           /\ at # 0 =>
                 /\ fc[Len(fc)] # ";"
                 /\ fc[Len(fc)] = (IF Watermark THEN "[v_out]" ELSE "[v]")
                 /\ e.args[at + 2] = << "-map" >>
                 /\ e.args[at + 3] = << fc[Len(fc)] >>
                 /\ Reframe =>
                       /\ SubSeq(fc, 1, 3) = << "[0:v]", reframeStages[2], "[bg]" >>
                       /\ Feeds(fc, "overlay=(W-w)/2:(H-h)/2", "[v]")
                 /\ (Reframe /\ Watermark) =>
                       /\ Feeds(fc, "[v]", "drawtext=text='")
                       /\ PieceAt(fc, "overlay=(W-w)/2:(H-h)/2") < PieceAt(fc, "drawtext=text='")
                       /\ ~Feeds(fc, "[0:v]", "drawtext=text='")
                 /\ (~Reframe /\ Watermark) =>
                       /\ fc[1] = "[0:v]" /\ fc[2] = "drawtext=text='"
                       /\ ~Feeds(fc, "[v]", "drawtext=text='")

\* a re-encode with both stages: the watermark consumes the reframe output
C25_Witness ==
    /\ pc = "execMain"
    /\ Reframe /\ Watermark
    /\ \E e \in MainExecs :
          /\ FilterAt(e.args) # 0
          /\ Feeds(e.args[FilterAt(e.args) + 1], "[v]", "drawtext=text='")
          /\ HasPair(e.args, "-map", "[v_out]")

\* --------------------------------------------------- interleaving properties

\* clip c is in the list cs
Shown(cs, c) == \E k \in 1..Len(cs) : cs[k] = c

\* While a job runs, the list is emptied by the upload and remove-video
\* handlers and refilled whole by the job; a list that is not empty and
\* lacks a clip the job has generated lacks it because removeClip removed it.
RemovedClips ==
    IF Len(clips) = 0 THEN {}
    ELSE { generatedClips[k] : k \in { j \in 1..Len(generatedClips) :
                                          ~Shown(clips, generatedClips[j]) } }

\* C26 as stated: a clip removed with removeClip while the job processes
\* later intervals is not in the list after any later step.
C26_RemovedClipStaysRemoved ==
    [][ \A c \in RemovedClips : ~Shown(clips', c) ]_vars

\* C27 as stated: while no video is loaded the list is empty, and every clip
\* in the list was cut from the source that is loaded.
C27_ClipsOfLoadedSource ==
    /\ videoFile = 0 => clips = << >>
    /\ \A k \in 1..Len(clips) : clips[k].file = videoFile

\* C28 as stated: the duration a running job closed over is the duration of
\* the source it cuts (or 0, before any metadata was loaded), never the
\* duration of a source loaded earlier.
C28_JobPlansOnItsSource ==
    pc # "idle" => job.duration \in {0, FileDuration(job.file)}

\* this step completes the last planned interval: every main clip was made
LastIntervalCompletes == ThumbPhase /\ ~ThumbPhase' /\ i + 1 = Len(intervals)

\* this step adds one history entry for the job, counting all its intervals
AddsHistoryEntry ==
    history' = << [name |-> job.file, clipsCount |-> Len(intervals)] >> \o history

\* C29 as stated: a job that made the main clip of every planned interval
\* ends with the success message and one new history entry counting them,
\* whenever cancelProcessing was called; only such a job adds an entry.
C29_AllClipsMeansSuccess ==
    [][ /\ LastIntervalCompletes =>
              /\ AddsHistoryEntry
              /\ message' = Msg("Selesai! Semua klip telah diproses.", "success")
        /\ history' # history => LastIntervalCompletes
      ]_vars

\* C29: a job that made the main clip of every planned interval ends with
\* the success message and one new history entry counting them if
\* cancelProcessing was not called before its last interval completed;
\* if it was, the job adds no entry and leaves the message as it is. Only a
\* job that processed all of its intervals adds an entry.
C29_SuccessUnlessCancelled ==
    [][ /\ LastIntervalCompletes =>
              /\ pc' = "idle" /\ Len(clips') = Len(intervals)
              /\ IF shouldProcess
                 THEN /\ AddsHistoryEntry
                      /\ message' = Msg("Selesai! Semua klip telah diproses.", "success")
                 ELSE history' = history /\ message' = message
        /\ history' # history => LastIntervalCompletes /\ shouldProcess /\ AddsHistoryEntry
      ]_vars

\* a job of three intervals ended with the success message and its entry
C29_Witness ==
    /\ pc = "idle" /\ jobs = 1
    /\ message = Msg("Selesai! Semua klip telah diproses.", "success")
    /\ Len(history) = 1 /\ history[1].clipsCount = 3
    /\ Len(clips) = 3

\* ------------------------------------------------------------ termination

\* no job is running and a new one can be started
JobEnded ==
    /\ pc = "idle" /\ ~isProcessing /\ ~shouldProcess
    /\ currentTask = NoTask
    /\ (videoFile # 0 /\ loaded /\ jobs < MaxJobs) => ENABLED Start

\* C30: when every engine call eventually returns or throws, a started job
\* eventually ends, and at its end, whatever the exit path, isProcessing is
\* false, currentTask is cleared and shouldProcess is false, so the process
\* button is enabled again; isProcessing is true exactly while a call of
\* processVideo is pending.
C30_JobEventuallyEnds ==
    /\ [][AwaitResolves <=> JobStep]_vars
    /\ [](isProcessing <=> pc # "idle")
    /\ [](pc = "idle" => JobEnded)
    /\ isProcessing ~> JobEnded

\* a job has ended by the cancellation exit
C30_Witness ==
    /\ JobEnded /\ jobs = 1
    /\ message.text = "Proses dibatalkan."

====
